---- MODULE Spec2Model ----
(***************************************************************************)
(* Model of bilibili-auto-replay-bot.                                      *)
(*                                                                         *)
(* Spec, FairSpec: the @-notification monitor, AtMonitor                   *)
(* (src/src/bot/monitor.py), driven by the feed returned by                *)
(* BilibiliClient.fetch_at_notifications and by the outcome of             *)
(* MessageProcessor.process.  The monitor is one asyncio coroutine.  Its   *)
(* position pc is always an await point of run(), so every action is the   *)
(* code that runs between two awaits; stop() runs on the same event loop   *)
(* and can only interleave at those points.                                *)
(*                                                                         *)
(* CacheSpec: SummaryCache (src/src/bot/cache.py) under any sequence of    *)
(* get and put calls and clock ticks.                                      *)
(*                                                                         *)
(* ProcSpec: MessageProcessor.process (src/src/bot/processor.py) with its  *)
(* SummaryCache, one invocation after the other, every collaborator call   *)
(* returning or raising.                                                   *)
(***************************************************************************)
EXTENDS Integers, Sequences, FiniteSets, TLC

(* ---------------------------- bounds ---------------------------------- *)

\* number of distinct notification ids the feed knows
MaxId == 3
\* longest batch one fetch returns
MaxBatch == 2
\* number of polls whose fetch returns a non-empty batch, and the number of
\* consecutive failing polls that is counted
MaxPolls == 2
\* the ledger cap used by the model (the code's value is 10000)
MaxProcessedIdsBound == 2

(* ---------------------------- the feed -------------------------------- *)

Ids == 1..MaxId

\* ids 1,2 carry timestamp 1; id 3 timestamp 2; ... (a timestamp can be
\* shared by two notifications, as the comment at monitor.py:111 expects)
TimestampOf(id) == (id + 1) \div 2

AtNotification == {[at_id |-> i, timestamp |-> TimestampOf(i)] : i \in Ids}

\* the seconds the startup can fall on: those the feed has notifications for
Times == {TimestampOf(i) : i \in Ids}

\* a batch is any list of notifications: fetch_at_notifications neither
\* sorts nor de-duplicates the items of the response
Batches == UNION {[1..n -> AtNotification] : n \in 0..MaxBatch}

NonEmptyBatches == Batches \ {<<>>}

NoNotification == [at_id |-> 0, timestamp |-> 0]

(* --------------------------- pure helpers ----------------------------- *)

max_processed_ids == MaxProcessedIdsBound

Max2(a, b) == IF a >= b THEN a ELSE b

Min2(a, b) == IF a <= b THEN a ELSE b

RECURSIVE MaxTimestamp(_)
MaxTimestamp(ns) ==
    IF Len(ns) = 1 THEN ns[1].timestamp
    ELSE Max2(ns[1].timestamp, MaxTimestamp(Tail(ns)))

RECURSIVE MinTimestamp(_)
MinTimestamp(ns) ==
    IF Len(ns) = 1 THEN ns[1].timestamp
    ELSE Min2(ns[1].timestamp, MinTimestamp(Tail(ns)))

LedgerIds(ledger) == {ledger[i].at_id : i \in DOMAIN ledger}

MarkProcessedNot(ledger, n) == ledger

\* self._processed_ids[n.at_id] = n.timestamp on an insertion-ordered dict:
\* a new key goes to the end, an existing key keeps its place
MarkProcessed(ledger, n) ==
    IF n.at_id \in LedgerIds(ledger)
    THEN [i \in DOMAIN ledger |->
            IF ledger[i].at_id = n.at_id THEN n ELSE ledger[i]]
    ELSE Append(ledger, n)

MarkAllFirst(ledger, ns) == MarkProcessed(ledger, Head(ns))

\* for n in notifications: self._processed_ids[n.at_id] = n.timestamp
RECURSIVE MarkAll(_, _)
MarkAll(ledger, ns) ==
    IF ns = <<>> THEN ledger
    ELSE MarkAll(MarkProcessed(ledger, Head(ns)), Tail(ns))

NewNotificationsStrict(ns, last, ledger) ==
    SelectSeq(ns, LAMBDA n : n.timestamp > last
                             /\ n.at_id \notin LedgerIds(ledger))

NewNotificationsNoWatermark(ns, last, ledger) ==
    SelectSeq(ns, LAMBDA n : n.at_id \notin LedgerIds(ledger))

NewNotifications(ns, last, ledger) ==
    SelectSeq(ns, LAMBDA n : n.timestamp >= last
                             /\ n.at_id \notin LedgerIds(ledger))

ReversedNot(s) == s

Reversed(s) == [i \in 1..Len(s) |-> s[Len(s) + 1 - i]]

AdvanceWatermarkMin(last, news) == Max2(last, MinTimestamp(news))

AdvanceWatermark(last, news) == Max2(last, MaxTimestamp(news))

PruneToCap(ledger) ==
    IF Len(ledger) > max_processed_ids
    THEN SubSeq(ledger, Len(ledger) - max_processed_ids + 1, Len(ledger))
    ELSE ledger

PruneKeepAll(ledger) == ledger

Prune(ledger) ==
    IF Len(ledger) > max_processed_ids
    THEN LET excess == Len(ledger) - max_processed_ids \div 2
         IN  SubSeq(ledger, excess + 1, Len(ledger))
    ELSE ledger

AfterProcessUncaught(outcome) ==
    IF outcome = "raised" THEN "sleep" ELSE "pacing"

\* lines 126-152: whatever process() ended in (true, false, raised), the
\* loop body goes on to the ledger insertion and await asyncio.sleep(3)
AfterProcess(outcome) == "pacing"

LoopContinuesWhileRunning(q, r) == q # <<>> /\ r

\* for notif in reversed(new_notifications): the loop goes on while events
\* are left; self._running is not read inside _poll_once
LoopContinues(q, r) == q # <<>>

LoopTargetForever(r) == "poll_fetch"

\* `while self._running:` evaluated with no await in between
LoopTarget(r) == IF r THEN "poll_fetch" ELSE "done"

(* --------------------- SummaryCache (cache.py) ------------------------ *)

\* number of distinct videos (cache keys)
MaxBvid == 3
\* the cache's max_size used by the model (the code's default is 500)
CacheMaxSizeBound == 2
\* the cache's ttl used by the model, in clock ticks (the code's default is
\* 86400 seconds)
CacheTtlBound == 1
\* last instant of the monotonic clock
MaxClock == 2
\* number of get/put calls made on the cache
MaxOps == 4

Bvids == 1..MaxBvid

\* texts (lists of characters) the generator can return and the cache can
\* hold; azure_openai.py returns result.strip(), which can be the empty text
Contents == {<<>>, <<"s", "u", "m">>}

max_size == CacheMaxSizeBound
ttl == CacheTtlBound

\* Optional[str]: None is the empty sequence, a text c is <<c>>
None == <<>>
Some(c) == <<c>>

\* _CacheEntry with the key of the OrderedDict it is stored under
CacheEntry == [key : Bvids, content : Contents, expire_at : 0..(MaxClock + ttl)]

\* a new SummaryCache: an OrderedDict listed from least to most recently
\* used, and the two counters
NewCache == [entries |-> <<>>, hits |-> 0, misses |-> 0]

CacheKeys(entries) == {entries[i].key : i \in DOMAIN entries}

EntryOf(entries, key) ==
    entries[CHOOSE i \in DOMAIN entries : entries[i].key = key]

\* del self._cache[key]
Delete(entries, key) == SelectSeq(entries, LAMBDA e : e.key # key)

MoveToEndNot(entries, key) == entries

\* self._cache.move_to_end(key)
MoveToEnd(entries, key) ==
    Append(Delete(entries, key), EntryOf(entries, key))

AssignKeepsOld(entries, entry) ==
    IF entry.key \in CacheKeys(entries) THEN entries ELSE Append(entries, entry)

\* self._cache[key] = entry: an existing key keeps its place, a new one is
\* appended
Assign(entries, entry) ==
    IF entry.key \in CacheKeys(entries)
    THEN [i \in DOMAIN entries |->
            IF entries[i].key = entry.key THEN entry ELSE entries[i]]
    ELSE Append(entries, entry)

getNoExpiry(self, key, now) ==
    IF key \notin CacheKeys(self.entries)
    THEN [self |-> [self EXCEPT !.misses = @ + 1], ret |-> None]
    ELSE [self |-> [self EXCEPT !.entries = MoveToEnd(@, key),
                                !.hits = @ + 1],
          ret |-> Some(EntryOf(self.entries, key).content)]

getCountsExpiredAsHit(self, key, now) ==
    IF key \notin CacheKeys(self.entries)
    THEN [self |-> [self EXCEPT !.misses = @ + 1], ret |-> None]
    ELSE IF now > EntryOf(self.entries, key).expire_at
    THEN [self |-> [self EXCEPT !.entries = Delete(@, key),
                                !.hits = @ + 1],
          ret |-> None]
    ELSE [self |-> [self EXCEPT !.entries = MoveToEnd(@, key),
                                !.hits = @ + 1],
          ret |-> Some(EntryOf(self.entries, key).content)]

\* SummaryCache.get at monotonic time now: the cache after the call and the
\* returned value
get(self, key, now) ==
    IF key \notin CacheKeys(self.entries)
    THEN [self |-> [self EXCEPT !.misses = @ + 1], ret |-> None]
    ELSE IF now > EntryOf(self.entries, key).expire_at
    THEN [self |-> [self EXCEPT !.entries = Delete(@, key),
                                !.misses = @ + 1],
          ret |-> None]
    ELSE [self |-> [self EXCEPT !.entries = MoveToEnd(@, key),
                                !.hits = @ + 1],
          ret |-> Some(EntryOf(self.entries, key).content)]

\* while len(self._cache) >= self._max_size: self._cache.popitem(last=False)
RECURSIVE EvictToFit(_)
EvictToFit(entries) ==
    IF Len(entries) >= max_size THEN EvictToFit(Tail(entries)) ELSE entries

putNoEviction(self, key, content, now) ==
    LET entry == [key |-> key, content |-> content, expire_at |-> now + ttl]
    IN  [self EXCEPT !.entries = MoveToEnd(Assign(@, entry), key)]

putPurgesExpired(self, key, content, now) ==
    LET entry == [key |-> key, content |-> content, expire_at |-> now + ttl]
        live == SelectSeq(self.entries, LAMBDA e : now <= e.expire_at)
    IN  [self EXCEPT
           !.entries = MoveToEnd(Assign(EvictToFit(live), entry), key)]

putEvictsOnlyToGrow(self, key, content, now) ==
    LET entry == [key |-> key, content |-> content, expire_at |-> now + ttl]
    IN  [self EXCEPT
           !.entries = IF key \in CacheKeys(@)
                       THEN MoveToEnd(Assign(@, entry), key)
                       ELSE MoveToEnd(Assign(EvictToFit(@), entry), key)]

\* SummaryCache.put at monotonic time now: the cache after the call
put(self, key, content, now) ==
    LET entry == [key |-> key, content |-> content, expire_at |-> now + ttl]
    IN  [self EXCEPT
           !.entries = MoveToEnd(Assign(EvictToFit(@), entry), key)]

(* ------------------ MessageProcessor (processor.py) ------------------- *)

\* number of process() invocations
MaxEvents == 2
\* max_reply_chars used by the model (the code's default is 900)
MaxReplyCharsBound == 8

max_reply_chars == MaxReplyCharsBound

\* largest max_reply_chars a processor is configured with, and the longest
\* generated text, where _format_reply is looked at on its own
MaxCap == 9
MaxBodyLen == 5

\* configured caps: BOT_MAX_REPLY_CHARS is any integer; the non-negative ones
Caps == 0..MaxCap

\* generated texts of every length up to MaxBodyLen
Bodies == UNION {[1..n -> {"a", "."}] : n \in 0..MaxBodyLen}

\* reply_prefix, as a list of characters
reply_prefix == <<"[", "A", "I", "]">>

\* _NOT_FOLLOWING_MSG, as a list of characters
NOT_FOLLOWING_MSG == <<"f", "o", "l", "l", "o", "w">>

\* A comment text is a list of tokens: "@", a blank " ", or a run of word
\* characters (\w or -) such as "bot"; two word tokens side by side are one
\* longer run.
WordTokens == {"bot", "why", "summary"}

IsWord(tok) == tok \in WordTokens

\* _SUMMARY_KEYWORDS: the word tokens that are a summary keyword
SUMMARY_KEYWORDS == {"summary"}

\* notification.content: "@bot", "@bot summary", "@bot why",
\* "@bot why @summary"
EventContents ==
    {<<"@", "bot">>,
     <<"@", "bot", " ", "summary">>,
     <<"@", "bot", " ", "why">>,
     <<"@", "bot", " ", "why", " ", "@", "summary">>}

\* root_id: 0 for an @ in a root comment, else the root comment's rpid
RootIds == {0, 111}

\* source_id: the rpid of the comment with the @
SourceIds == {555}

\* oid: the comment area of the video
Oids == {900}

\* what process() reads of an AtNotification
ProcessorNotification ==
    [bvid : Bvids, content : EventContents, root_id : RootIds,
     source_id : SourceIds, oid : Oids]

NoProcessorNotification ==
    [bvid |-> 0, content |-> <<>>, root_id |-> 0, source_id |-> 0, oid |-> 0]

\* the text after its leading word tokens / after its leading blanks
RECURSIVE DropWords(_)
DropWords(text) ==
    IF text # <<>> /\ IsWord(Head(text)) THEN DropWords(Tail(text)) ELSE text

RECURSIVE DropBlanks(_)
DropBlanks(text) ==
    IF text # <<>> /\ Head(text) = " " THEN DropBlanks(Tail(text)) ELSE text

\* _AT_PATTERN.sub("", content) with _AT_PATTERN = @[\w\-]+\s*: every "@"
\* that a word character follows is removed with the run of word characters
\* and the blanks after it
RECURSIVE SubAtPattern(_)
SubAtPattern(text) ==
    IF text = <<>> THEN <<>>
    ELSE IF Head(text) = "@" /\ Len(text) >= 2 /\ IsWord(text[2])
    THEN SubAtPattern(DropBlanks(DropWords(Tail(text))))
    ELSE <<Head(text)>> \o SubAtPattern(Tail(text))

\* s reversed
RECURSIVE Rev(_)
Rev(text) == IF text = <<>> THEN <<>> ELSE Append(Rev(Tail(text)), Head(text))

\* str.strip(): no blanks at either end
Strip(text) == Rev(DropBlanks(Rev(DropBlanks(text))))

\* _extract_user_question
extract_user_question(content) == Strip(SubAtPattern(content))

is_summary_request_keyword_only(text) ==
    \E i \in DOMAIN text : text[i] \in SUMMARY_KEYWORDS

\* _is_summary_request: no text, or a text with a summary keyword
is_summary_request(text) ==
    \/ text = <<>>
    \/ \E i \in DOMAIN text : text[i] \in SUMMARY_KEYWORDS

\* the intent of a notification, as process() computes it at lines 95-96
SummaryIntent(n) == is_summary_request(extract_user_question(n.content))

\* s[:n] of Python: a negative n counts from the end
SliceTo(s, n) ==
    IF n >= 0 THEN SubSeq(s, 1, Min2(n, Len(s)))
    ELSE SubSeq(s, 1, Max2(Len(s) + n, 0))

\* _format_reply under a cap: prefix, newline, text; when longer than the
\* cap, reply[: cap - 3] + "..."
format_reply_with(cap, ai_text) ==
    LET reply == reply_prefix \o <<"\n">> \o ai_text
    IN  IF Len(reply) > cap
        THEN SliceTo(reply, cap - 3) \o <<".", ".", ".">>
        ELSE reply

\* _format_reply of the configured processor
format_reply(ai_text) == format_reply_with(max_reply_chars, ai_text)

\* what the relation request can end in: an exception (transport error, bad
\* status, bad JSON), or a JSON body with a code and be_relation.attribute
RelationResponses ==
    {[kind |-> "exception", code |-> 0, attribute |-> 0]}
    \cup {[kind |-> "json", code |-> c, attribute |-> a] :
             c \in {0, -101}, a \in {0, 2, 6}}

\* BilibiliClient.is_user_following_me on such an ending
is_user_following_me(resp) ==
    IF resp.kind = "exception" THEN TRUE
    ELSE IF resp.code # 0 THEN FALSE
    ELSE resp.attribute \in {2, 6}

\* how the relation check ended, for the record
RelationKind(resp) ==
    IF resp.kind = "exception" THEN "exception"
    ELSE IF resp.code # 0 THEN "nonzero_code"
    ELSE "answered"

\* `if cached:` on an Optional[str]: None and the empty text are false
Truthy(opt) == opt # None /\ opt[1] # <<>>

AfterRelationAlwaysOn(following) == "video_info"

\* lines 83-92: where process() goes after the relation check
AfterRelation(following) == IF following THEN "video_info" ELSE "reply"

CacheableAlways(summary) == TRUE

CacheableNever(summary) == FALSE

\* lines 99 and 126: the cache is used for summary requests only
Cacheable(summary) == summary

ExceptHandlerReraises(step) == "propagated"

\* lines 141-145: except Exception: log, return False
ExceptHandler(step) == "false"

ReplyTargetUnderSource(n) ==
    [oid |-> n.oid, root |-> n.source_id, parent |-> n.source_id]

\* _send_reply lines 174-185: where the reply is threaded
ReplyTarget(n) ==
    [oid |-> n.oid,
     root |-> IF n.root_id = 0 THEN n.source_id ELSE n.root_id,
     parent |-> n.source_id]

\* the send_reply call _send_reply makes, with what it ended in (success,
\* failure, raised)
SendReplyCall(n, text, outcome) ==
    [oid |-> ReplyTarget(n).oid, root |-> ReplyTarget(n).root,
     parent |-> ReplyTarget(n).parent, message |-> text,
     outcome |-> outcome]

ReplyResultAlwaysTrue(success) == "true"

\* _send_reply line 198: return result.success
ReplyResult(success) == IF success THEN "true" ELSE "false"

\* the calls process() has made, all zero, and the question it has passed
\* to answer_question
NoCalls == [relation |-> 0, video_info |-> 0, cache_get |-> 0, subtitle |-> 0,
            summarize |-> 0, answer |-> 0, cache_put |-> 0,
            question |-> <<>>]

(* ------------------------------ state --------------------------------- *)

VARIABLES
    pc,                 \* await point of run(): idle, init_fetch, poll_fetch,
                        \* processing, pacing, sleep, done
    running,            \* AtMonitor._running
    last_at_time,       \* AtMonitor._last_at_time (the watermark)
    processed_ids,      \* AtMonitor._processed_ids, in insertion order
    notifications,      \* _poll_once: the fetched batch
    new_notifications,  \* _poll_once: the filtered batch
    queue,              \* _poll_once: what the for loop still has to visit
    notif,              \* _poll_once: the loop variable
    \* ---- history (not in the code) ----
    processCount,       \* per id: number of process() invocations (0, 1,
                        \* or 2 for "more than once")
    handed,             \* notifications handed to process() in this poll
    failedIds,          \* ids whose process() in this poll returned false
                        \* or raised
    initBatch,          \* the batch _initialize got, until the first poll ends
    startTime,          \* wall clock read by _initialize (0: not read)
    polls,              \* polls whose fetch returned a non-empty batch
    failStreak,         \* consecutive polls whose fetch raised
    everInserted,       \* ids that have been inserted into the ledger
    insertedAfter,      \* per id: ids newly inserted after its last insertion
    \* ---- the SummaryCache and its clock ----
    cache,              \* SummaryCache: _cache (as entries), _hits, _misses
    clock,              \* time.monotonic()
    \* ---- history of the calls made on the cache (not in the code) ----
    opCount,            \* number of get/put calls made so far
    lastOp,             \* the last call: its name, key and returned value
    lastPutAt,          \* per key: clock of its last put (-1: never put)
    lastPutContent,     \* per key: the content handed to its last put
    lastUsed,           \* per key: opCount of its last put or get hit
    \* ---- one MessageProcessor.process coroutine ----
    ppc,                \* await point of process(): idle (not running),
                        \* relation, video_info, subtitle, ai, reply
    notification,       \* process: the parameter
    is_following,       \* process: local
    is_summary,         \* process: local
    reply_text,         \* process: local, the text handed to _send_reply
    result,             \* what the last process() ended in: none (not yet),
                        \* true, false, propagated (an exception left it)
    \* ---- history of the invocation (not in the code) ----
    events,             \* number of process() invocations so far
    relationKind,       \* how the relation check ended: pending, exception,
                        \* nonzero_code, answered
    calls,              \* collaborator calls made by this invocation
    posted,             \* send_reply calls made by this invocation
    summarized,         \* videos a summarize call has returned a text for
    liveAtLookup,       \* the cache lookup of this invocation was for a
                        \* summarized video whose entry was neither
                        \* evicted nor expired
    raised,             \* the collaborator call of this invocation that
                        \* raised into process(), or none
    \* ---- _format_reply on its own ----
    fmt_cap,            \* MessageProcessor._max_reply_chars
    fmt_text,           \* _format_reply: the parameter ai_text
    fmt_reply           \* _format_reply: the returned text (None: not called)

monitorVars == <<pc, running, last_at_time, processed_ids, notifications,
                 new_notifications, queue, notif, processCount, handed,
                 failedIds, initBatch, startTime, polls, failStreak,
                 everInserted, insertedAfter>>

cacheVars == <<cache, clock, opCount, lastOp, lastPutAt, lastPutContent,
              lastUsed>>

procVars == <<ppc, notification, is_following, is_summary, reply_text,
              result, events, relationKind, calls, posted, summarized,
              liveAtLookup, raised>>

formatVars == <<fmt_cap, fmt_text, fmt_reply>>

\* what the monitor's own steps leave alone
beyondMonitor == <<cacheVars, procVars, formatVars>>

\* what neither the cache's nor the processor's steps touch
elsewhere == <<monitorVars, formatVars>>

vars == <<monitorVars, beyondMonitor>>

locals == <<notifications, new_notifications, queue, notif>>

history == <<processCount, handed, failedIds, initBatch, startTime, polls,
             failStreak, everInserted, insertedAfter>>

\* everything but the configuration _format_reply is looked at under
InitExceptFormat ==
    /\ pc = "idle"
    /\ running = FALSE
    /\ last_at_time = 0
    /\ processed_ids = <<>>
    /\ notifications = <<>>
    /\ new_notifications = <<>>
    /\ queue = <<>>
    /\ notif = NoNotification
    /\ processCount = [i \in Ids |-> 0]
    /\ handed = <<>>
    /\ failedIds = {}
    /\ initBatch = <<>>
    /\ startTime = 0
    /\ polls = 0
    /\ failStreak = 0
    /\ everInserted = {}
    /\ insertedAfter = [i \in Ids |-> {}]
    /\ cache = NewCache
    /\ clock = 0
    /\ opCount = 0
    /\ lastOp = [op |-> "none", key |-> 0, ret |-> None]
    /\ lastPutAt = [k \in Bvids |-> -1]
    /\ lastPutContent = [k \in Bvids |-> <<>>]
    /\ lastUsed = [k \in Bvids |-> 0]
    /\ ppc = "idle"
    /\ notification = NoProcessorNotification
    /\ is_following = FALSE
    /\ is_summary = FALSE
    /\ reply_text = <<>>
    /\ result = "none"
    /\ events = 0
    /\ relationKind = "pending"
    /\ calls = NoCalls
    /\ posted = <<>>
    /\ summarized = {}
    /\ liveAtLookup = FALSE
    /\ raised = "none"

Init ==
    /\ InitExceptFormat
    /\ fmt_cap = max_reply_chars
    /\ fmt_text = <<>>
    /\ fmt_reply = None

\* a processor constructed with any cap
FormatInit ==
    /\ InitExceptFormat
    /\ fmt_cap \in Caps
    /\ fmt_text = <<>>
    /\ fmt_reply = None

\* bookkeeping of the ledger's insertions between two ledger values; new
\* keys are appended, so the ids inserted after a new key follow it
RecordInsertions(old, new) ==
    LET fresh == LedgerIds(new) \ LedgerIds(old)
        After(i) == {new[k].at_id : k \in {m \in DOMAIN new :
                        \E q \in DOMAIN new : new[q].at_id = i /\ q < m}}
    IN  /\ everInserted' = everInserted \cup fresh
        /\ insertedAfter' =
             [i \in Ids |-> IF i \in fresh THEN After(i)
                            ELSE IF i \in everInserted
                                 THEN insertedAfter[i] \cup fresh
                                 ELSE {}]

(* ----------------------------- actions -------------------------------- *)

\* run(): self._running = True, then await self._initialize()
Run ==
    /\ pc = "idle"
    /\ pc' = "init_fetch"
    /\ running' = TRUE
    /\ UNCHANGED <<last_at_time, processed_ids, locals, history>>
    /\ UNCHANGED beyondMonitor

\* stop(): called from shutdown() on the same event loop
Stop ==
    /\ pc \in {"init_fetch", "poll_fetch", "processing", "pacing", "sleep"}
    /\ running
    /\ running' = FALSE
    /\ UNCHANGED <<pc, last_at_time, processed_ids, locals, history>>
    /\ UNCHANGED beyondMonitor

\* _initialize(): the fetch returned a non-empty batch
InitializeBatch ==
    /\ pc = "init_fetch"
    /\ \E ns \in NonEmptyBatches :
         /\ last_at_time' = MaxTimestamp(ns)
         /\ processed_ids' = MarkAll(processed_ids, ns)
         /\ initBatch' = ns
    /\ RecordInsertions(processed_ids, processed_ids')
    /\ pc' = LoopTarget(running)
    /\ UNCHANGED <<running, locals, processCount, handed, failedIds, startTime,
                   polls, failStreak>>
    /\ UNCHANGED beyondMonitor

\* _initialize(): the fetch returned an empty batch
InitializeEmpty ==
    /\ pc = "init_fetch"
    /\ \E now \in Times :
         /\ last_at_time' = now
         /\ startTime' = now
    /\ pc' = LoopTarget(running)
    /\ UNCHANGED <<running, processed_ids, locals, processCount, handed,
                   failedIds, initBatch, polls, failStreak, everInserted,
                   insertedAfter>>
    /\ UNCHANGED beyondMonitor

\* _initialize(): the fetch raised
InitializeFails ==
    /\ pc = "init_fetch"
    /\ \E now \in Times :
         /\ last_at_time' = now
         /\ startTime' = now
    /\ pc' = LoopTarget(running)
    /\ UNCHANGED <<running, processed_ids, locals, processCount, handed,
                   failedIds, initBatch, polls, failStreak, everInserted,
                   insertedAfter>>
    /\ UNCHANGED beyondMonitor

\* the for loop hands n to self._processor.process
HandTo(n, rest) ==
    /\ notif' = n
    /\ queue' = rest
    /\ processCount' = [processCount EXCEPT ![n.at_id] = Min2(@ + 1, 2)]
    /\ pc' = "processing"

PollFailsStops ==
    /\ pc = "poll_fetch"
    /\ pc' = "done"
    /\ failStreak' = Min2(failStreak + 1, MaxPolls)
    /\ UNCHANGED <<running, last_at_time, processed_ids, locals,
                   processCount, handed, failedIds, initBatch,
                   startTime, polls, everInserted, insertedAfter>>
    /\ UNCHANGED beyondMonitor

\* _poll_once(): the fetch raised; run() catches, logs and goes to sleep
PollFails ==
    /\ pc = "poll_fetch"
    /\ pc' = "sleep"
    /\ failStreak' = Min2(failStreak + 1, MaxPolls)
    /\ UNCHANGED <<running, last_at_time, processed_ids, locals,
                   processCount, handed, failedIds, initBatch,
                   startTime, polls, everInserted, insertedAfter>>
    /\ UNCHANGED beyondMonitor

\* _poll_once(): the fetch returned; either an early return or the first
\* iteration of the for loop
PollOnce ==
    /\ pc = "poll_fetch"
    /\ \E ns \in Batches :
         /\ ns # <<>> => polls < MaxPolls
         /\ polls' = IF ns # <<>> THEN polls + 1 ELSE polls
         /\ notifications' = ns
         /\ LET news == NewNotifications(ns, last_at_time, processed_ids)
                order == Reversed(news)
            IN  /\ new_notifications' = news
                /\ IF news = <<>>
                   THEN /\ pc' = "sleep"
                        /\ handed' = <<>>
                        /\ UNCHANGED <<queue, notif, processCount>>
                   ELSE /\ handed' = <<Head(order)>>
                        /\ HandTo(Head(order), Tail(order))
    /\ failStreak' = 0
    /\ UNCHANGED <<running, last_at_time, processed_ids, failedIds,
                   initBatch, startTime, everInserted, insertedAfter>>
    /\ UNCHANGED beyondMonitor

\* process() ended: the notification is marked and the pacing sleep starts
ProcessEnds ==
    /\ pc = "processing"
    /\ \E o \in {"true", "false", "raised"} :
         /\ failedIds' = IF o = "true" THEN failedIds \ {notif.at_id}
                                      ELSE failedIds \cup {notif.at_id}
         /\ pc' = AfterProcess(o)
    /\ processed_ids' = MarkProcessed(processed_ids, notif)
    /\ RecordInsertions(processed_ids, processed_ids')
    /\ UNCHANGED <<running, last_at_time, locals, processCount, handed,
                   initBatch, startTime, polls, failStreak>>
    /\ UNCHANGED beyondMonitor

\* asyncio.sleep(3) ended and the for loop has a next notification
NextNotification ==
    /\ pc = "pacing"
    /\ LoopContinues(queue, running)
    /\ handed' = Append(handed, Head(queue))
    /\ HandTo(Head(queue), Tail(queue))
    /\ UNCHANGED <<running, last_at_time, processed_ids, notifications,
                   new_notifications, failedIds, initBatch, startTime,
                   polls, failStreak, everInserted, insertedAfter>>
    /\ UNCHANGED beyondMonitor

\* asyncio.sleep(3) ended and the for loop is over: watermark, pruning, and
\* run() starts its interval sleep
BatchEnds ==
    /\ pc = "pacing"
    /\ ~LoopContinues(queue, running)
    /\ last_at_time' = AdvanceWatermark(last_at_time, new_notifications)
    /\ processed_ids' = Prune(processed_ids)
    /\ pc' = "sleep"
    /\ UNCHANGED <<running, locals, processCount, handed, failedIds,
                   initBatch, startTime, polls, failStreak, everInserted,
                   insertedAfter>>
    /\ UNCHANGED beyondMonitor

\* asyncio.sleep(poll_interval) ended; the while condition is re-evaluated.
\* The locals of the finished _poll_once are gone.
SleepEnds ==
    /\ pc = "sleep"
    /\ pc' = LoopTarget(running)
    /\ notifications' = <<>>
    /\ new_notifications' = <<>>
    /\ notif' = NoNotification
    /\ handed' = <<>>
    /\ failedIds' = {}
    /\ initBatch' = IF failStreak = 0 THEN <<>> ELSE initBatch
    /\ UNCHANGED <<running, last_at_time, processed_ids, queue, processCount,
                   startTime, polls, failStreak,
                   everInserted, insertedAfter>>
    /\ UNCHANGED beyondMonitor

Monitor ==
    \/ InitializeBatch
    \/ InitializeEmpty
    \/ InitializeFails
    \/ PollFails
    \/ PollOnce
    \/ ProcessEnds
    \/ NextNotification
    \/ BatchEnds
    \/ SleepEnds

Next ==
    \/ Run
    \/ Stop
    \/ Monitor

Spec == Init /\ [][Next]_vars

\* every await of run() returns: the collaborators' calls have bounded
\* deadlines and the sleeps are finite
FairSpec == Spec /\ WF_vars(Monitor)

(* ------------------- the SummaryCache on its own ---------------------- *)

\* any caller calls get(key)
CallGet ==
    /\ opCount < MaxOps
    /\ \E key \in Bvids :
         LET r == get(cache, key, clock)
         IN  /\ cache' = r.self
             /\ lastOp' = [op |-> "get", key |-> key, ret |-> r.ret]
             /\ lastUsed' = IF r.ret # None
                            THEN [lastUsed EXCEPT ![key] = opCount + 1]
                            ELSE lastUsed
    /\ opCount' = opCount + 1
    /\ UNCHANGED <<clock, lastPutAt, lastPutContent, elsewhere, procVars>>

\* any caller calls put(key, content)
CallPut ==
    /\ opCount < MaxOps
    /\ \E key \in Bvids, content \in Contents :
         /\ cache' = put(cache, key, content, clock)
         /\ lastOp' = [op |-> "put", key |-> key, ret |-> None]
         /\ lastPutAt' = [lastPutAt EXCEPT ![key] = clock]
         /\ lastPutContent' = [lastPutContent EXCEPT ![key] = content]
         /\ lastUsed' = [lastUsed EXCEPT ![key] = opCount + 1]
    /\ opCount' = opCount + 1
    /\ UNCHANGED <<clock, elsewhere, procVars>>

\* the monotonic clock advances
Tick ==
    /\ clock < MaxClock
    /\ clock' = clock + 1
    /\ UNCHANGED <<cache, opCount, lastOp, lastPutAt, lastPutContent,
                   lastUsed, elsewhere, procVars>>

CacheNext ==
    \/ CallGet
    \/ CallPut
    \/ Tick

CacheSpec == Init /\ [][CacheNext]_vars

(* ---------------- MessageProcessor.process and its cache -------------- *)

cacheHistory == <<opCount, lastOp, lastPutAt, lastPutContent, lastUsed>>

\* the monitor (or any caller) awaits process(n); the coroutine runs up to
\* the await of the relation check
ProcessStart ==
    /\ ppc = "idle"
    /\ events < MaxEvents
    /\ \E n \in ProcessorNotification : notification' = n
    /\ events' = events + 1
    /\ ppc' = "relation"
    /\ is_following' = FALSE
    /\ is_summary' = FALSE
    /\ reply_text' = <<>>
    /\ result' = "none"
    /\ relationKind' = "pending"
    /\ calls' = NoCalls
    /\ posted' = <<>>
    /\ liveAtLookup' = FALSE
    /\ raised' = "none"
    /\ UNCHANGED <<summarized, cache, clock, cacheHistory, elsewhere>>

\* is_user_following_me returned (it catches its own exceptions)
RelationReturns ==
    /\ ppc = "relation"
    /\ \E resp \in RelationResponses :
         /\ is_following' = is_user_following_me(resp)
         /\ relationKind' = RelationKind(resp)
    /\ calls' = [calls EXCEPT !.relation = @ + 1]
    /\ ppc' = AfterRelation(is_following')
    /\ reply_text' = IF ppc' = "reply" THEN NOT_FOLLOWING_MSG ELSE reply_text
    /\ UNCHANGED <<notification, is_summary, result, events, posted,
                   summarized, liveAtLookup, cache, clock, cacheHistory,
                   elsewhere>>
    /\ UNCHANGED raised

\* fetch_video_info returned: intent, then the cache lookup of a summary
\* request, up to the await of fetch_subtitle or of send_reply
VideoInfoReturns ==
    /\ ppc = "video_info"
    /\ is_summary' = SummaryIntent(notification)
    /\ IF Cacheable(is_summary')
       THEN LET r == get(cache, notification.bvid, clock)
                live == /\ notification.bvid \in summarized
                        /\ notification.bvid \in CacheKeys(cache.entries)
                        /\ clock <= EntryOf(cache.entries,
                                            notification.bvid).expire_at
            IN  /\ cache' = r.self
                /\ liveAtLookup' = live
                /\ calls' = [calls EXCEPT !.video_info = @ + 1,
                                          !.cache_get = @ + 1]
                /\ IF Truthy(r.ret)
                   THEN /\ reply_text' = format_reply(r.ret[1])
                        /\ ppc' = "reply"
                   ELSE /\ reply_text' = reply_text
                        /\ ppc' = "subtitle"
       ELSE /\ calls' = [calls EXCEPT !.video_info = @ + 1]
            /\ ppc' = "subtitle"
            /\ UNCHANGED <<cache, liveAtLookup, reply_text>>
    /\ UNCHANGED <<notification, is_following, result, events, relationKind,
                   posted, summarized, clock, cacheHistory, elsewhere>>
    /\ UNCHANGED raised

\* fetch_video_info raised
VideoInfoRaises ==
    /\ ppc = "video_info"
    /\ calls' = [calls EXCEPT !.video_info = @ + 1]
    /\ result' = ExceptHandler("video_info")
    /\ raised' = "video_info"
    /\ ppc' = "idle"
    /\ UNCHANGED <<notification, is_following, is_summary, reply_text, events,
                   relationKind, posted, summarized, liveAtLookup, cache,
                   clock, cacheHistory, elsewhere>>

\* fetch_subtitle returned (a subtitle or None); the context is built
SubtitleReturns ==
    /\ ppc = "subtitle"
    /\ calls' = [calls EXCEPT !.subtitle = @ + 1]
    /\ ppc' = "ai"
    /\ UNCHANGED <<notification, is_following, is_summary, reply_text, result,
                   events, relationKind, posted, summarized, liveAtLookup,
                   cache, clock, cacheHistory, elsewhere>>
    /\ UNCHANGED raised

\* fetch_subtitle raised
SubtitleRaises ==
    /\ ppc = "subtitle"
    /\ calls' = [calls EXCEPT !.subtitle = @ + 1]
    /\ result' = ExceptHandler("subtitle")
    /\ raised' = "subtitle"
    /\ ppc' = "idle"
    /\ UNCHANGED <<notification, is_following, is_summary, reply_text, events,
                   relationKind, posted, summarized, liveAtLookup, cache,
                   clock, cacheHistory, elsewhere>>

\* summarize_video or answer_question returned a text; a summary is put
\* into the cache; the reply is formatted, up to the await of send_reply
AiReturns ==
    /\ ppc = "ai"
    /\ \E ai_result \in Contents :
         /\ IF is_summary
            THEN /\ calls' = [calls EXCEPT !.summarize = @ + 1,
                                           !.cache_put = @ + 1]
                 /\ summarized' = summarized \cup {notification.bvid}
            ELSE /\ calls' = [calls EXCEPT
                                !.answer = @ + 1,
                                !.question =
                                   extract_user_question(notification.content)]
                 /\ summarized' = summarized
         /\ cache' = IF Cacheable(is_summary)
                     THEN put(cache, notification.bvid, ai_result, clock)
                     ELSE cache
         /\ reply_text' = format_reply(ai_result)
    /\ ppc' = "reply"
    /\ UNCHANGED <<notification, is_following, is_summary, result, events,
                   relationKind, posted, liveAtLookup, clock, cacheHistory,
                   elsewhere>>
    /\ UNCHANGED raised

\* summarize_video or answer_question raised
AiRaises ==
    /\ ppc = "ai"
    /\ calls' = IF is_summary
                THEN [calls EXCEPT !.summarize = @ + 1]
                ELSE [calls EXCEPT
                        !.answer = @ + 1,
                        !.question =
                           extract_user_question(notification.content)]
    /\ result' = ExceptHandler("ai")
    /\ raised' = "ai"
    /\ ppc' = "idle"
    /\ UNCHANGED <<notification, is_following, is_summary, reply_text, events,
                   relationKind, posted, summarized, liveAtLookup, cache,
                   clock, cacheHistory, elsewhere>>

\* send_reply returned a ReplyResult; process() returns its success
ReplyReturns ==
    /\ ppc = "reply"
    /\ \E success \in BOOLEAN :
         /\ posted' = Append(posted,
                SendReplyCall(notification, reply_text,
                              IF success THEN "success" ELSE "failure"))
         /\ result' = ReplyResult(success)
    /\ ppc' = "idle"
    /\ UNCHANGED <<notification, is_following, is_summary, reply_text, events,
                   relationKind, calls, summarized, liveAtLookup, cache,
                   clock, cacheHistory, elsewhere>>
    /\ UNCHANGED raised

\* send_reply raised
ReplyRaises ==
    /\ ppc = "reply"
    /\ posted' = Append(posted,
                        SendReplyCall(notification, reply_text, "raised"))
    /\ result' = ExceptHandler("reply")
    /\ raised' = "reply"
    /\ ppc' = "idle"
    /\ UNCHANGED <<notification, is_following, is_summary, reply_text, events,
                   relationKind, calls, summarized, liveAtLookup, cache,
                   clock, cacheHistory, elsewhere>>

ProcNext ==
    \/ ProcessStart
    \/ RelationReturns
    \/ VideoInfoReturns
    \/ VideoInfoRaises
    \/ SubtitleReturns
    \/ SubtitleRaises
    \/ AiReturns
    \/ AiRaises
    \/ ReplyReturns
    \/ ReplyRaises
    \/ Tick

ProcSpec == Init /\ [][ProcNext]_vars

(* ----------------------- _format_reply on its own --------------------- *)

\* _format_reply(ai_text) is called on a generated text
FormatReply ==
    /\ \E ai_text \in Bodies :
         /\ fmt_text' = ai_text
         /\ fmt_reply' = Some(format_reply_with(fmt_cap, ai_text))
    /\ UNCHANGED <<fmt_cap, monitorVars, cacheVars, procVars>>

FormatNext == FormatReply

FormatSpec == FormatInit /\ [][FormatNext]_vars

(* ------------------------------ claims -------------------------------- *)

NothingProcessed == \A i \in Ids : processCount[i] = 0

\* stop() has been called since run() started
Stopped == pc # "idle" /\ ~running

NewestFirst(ns) ==
    \A i, j \in DOMAIN ns : i < j => ns[i].timestamp >= ns[j].timestamp

\* C1: process() is invoked at most once per at_id, whatever the feed
\* returns (a batch listing the same at_id twice included).
C1_AtMostOncePerEventId == \A i \in Ids : processCount[i] <= 1

\* C2: a notification whose at_id has been inserted into the ledger is not
\* handed to process() again, in the same poll or a later one, while at most
\* max_processed_ids/2 further distinct ids have been inserted after it.
C2_NoRedeliveryWhileRecent ==
    (pc = "processing" /\ notif.at_id \in everInserted)
        => 2 * Cardinality(insertedAfter[notif.at_id]) > max_processed_ids

\* C3: _initialize with a non-empty batch sets the watermark to the largest
\* timestamp of the batch, marks every at_id of the batch, hands nothing to
\* process(), and a following poll that returns the same batch hands
\* nothing to process() either.
C3_InitializationSkipsHistory ==
    initBatch # <<>> =>
        /\ NothingProcessed =>
             /\ last_at_time = MaxTimestamp(initBatch)
             /\ \A k \in DOMAIN initBatch :
                    initBatch[k].at_id \in LedgerIds(processed_ids)
        /\ polls = 0 => NothingProcessed
        /\ notifications = initBatch =>
             /\ pc = "sleep"
             /\ new_notifications = <<>>
             /\ handed = <<>>
             /\ NothingProcessed

C3_Witness ==
    /\ Len(initBatch) = 2
    /\ initBatch[1].timestamp < initBatch[2].timestamp
    /\ notifications = initBatch
    /\ pc = "sleep"

\* C4: when the first fetch returns nothing or raises, _initialize does not
\* fail: the watermark is the wall clock, the ledger stays empty, run() goes
\* on to poll (it ends only on stop()), and no notification older than the
\* startup second is ever handed to process().
C4_StartFromNow ==
    startTime # 0 =>
        /\ startTime \in Times
        /\ last_at_time >= startTime
        /\ NothingProcessed =>
             (last_at_time = startTime /\ processed_ids = <<>>)
        /\ \A i \in Ids : processCount[i] > 0 => TimestampOf(i) >= startTime
        /\ pc \in {"poll_fetch", "processing", "pacing", "sleep", "done"}
        /\ pc = "done" => ~running

C4_Witness ==
    /\ startTime > 1
    /\ pc = "pacing"
    /\ \E k \in DOMAIN notifications : notifications[k].timestamp < startTime
    /\ \E i \in Ids : processCount[i] > 0

\* C5: a notification handed to process() is in the ledger once its
\* processing has ended, whether process() returned true, false or raised;
\* and a notification whose processing failed is not handed to process()
\* again while its at_id is in the ledger.
\* (A later poll selects no at_id that is in the ledger when it fetches,
\* failed or not; within a poll failedIds remembers the failures.)
C5_MarkedAndNeverRetried ==
    /\ pc = "pacing" => notif.at_id \in LedgerIds(processed_ids)
    /\ (pc = "processing" /\ Len(handed) = 1)
          => \A k \in DOMAIN new_notifications :
                 new_notifications[k].at_id \notin LedgerIds(processed_ids)
    /\ (pc = "processing" /\ notif.at_id \in failedIds)
          => notif.at_id \notin LedgerIds(processed_ids)

\* C6: when the fetched batch is newest-first, the notifications of one poll
\* are handed to process() oldest-first: never one with a larger timestamp
\* before one with a smaller timestamp.
C6_OldestFirst ==
    NewestFirst(notifications) =>
        \A i, j \in DOMAIN handed :
            i < j => handed[i].timestamp <= handed[j].timestamp

C6_Witness ==
    /\ NewestFirst(notifications)
    /\ Len(handed) = 2
    /\ handed[1].timestamp < handed[2].timestamp
    /\ pc = "pacing"

\* C7: once _initialize has set it, the watermark never decreases, and at
\* the end of a poll that processed new notifications it equals the largest
\* timestamp among them.
C7_WatermarkMonotonic ==
    [][ /\ pc \notin {"idle", "init_fetch"} => last_at_time' >= last_at_time
        /\ (pc = "pacing" /\ pc' = "sleep")
              => last_at_time' = MaxTimestamp(new_notifications)
      ]_vars

C7_Witness ==
    /\ pc = "sleep"
    /\ Len(new_notifications) = 2
    /\ MinTimestamp(new_notifications) < MaxTimestamp(new_notifications)
    /\ last_at_time = MaxTimestamp(new_notifications)
    /\ startTime # 0
    /\ startTime < last_at_time

\* C8 as stated: the ledger holds at most max_processed_ids entries in
\* every reachable state.
C8_LedgerNeverExceedsCap == Len(processed_ids) <= max_processed_ids

\* C8 amended: once a poll has run its for loop to the end, the ledger holds
\* at most max_processed_ids entries whenever no batch is being processed.
C8_LedgerWithinCapAfterProcessedPoll ==
    (~NothingProcessed /\ pc \in {"sleep", "poll_fetch", "done"})
        => Len(processed_ids) <= max_processed_ids

C8_Witness ==
    /\ pc = "sleep"
    /\ ~NothingProcessed
    /\ Cardinality(everInserted) > max_processed_ids
    /\ Len(processed_ids) = max_processed_ids \div 2

\* C9: a poll whose fetch raises does not end run(): the watermark and the
\* ledger are unchanged, run() goes to its interval sleep, the next poll
\* follows the sleep while the monitor is running, and run() ends only
\* when _running is false.
C9_PollFailureIsNotFatal ==
    [][ /\ (pc = "poll_fetch" /\ pc' # pc /\ failStreak' > 0)
              => /\ pc' = "sleep"
                 /\ last_at_time' = last_at_time
                 /\ processed_ids' = processed_ids
        /\ (pc = "sleep" /\ pc' # pc /\ running) => pc' = "poll_fetch"
        /\ (pc # "done" /\ pc' = "done") => ~running
      ]_vars

C9_Witness ==
    /\ failStreak >= 2
    /\ pc = "poll_fetch"
    /\ running
    /\ processed_ids # <<>>

\* C10: after stop() run() eventually returns; the notification being
\* processed is still marked as processed; and no poll is started after
\* stop().
C10_StopEndsRun ==
    /\ Stopped ~> (pc = "done")
    /\ [][ /\ (pc = "processing" /\ pc' # pc)
                 => /\ pc' = "pacing"
                    /\ notif.at_id \in LedgerIds(processed_ids')
           /\ (Stopped /\ pc' = "poll_fetch") => pc = "poll_fetch"
         ]_vars

C10_Witness ==
    /\ Stopped
    /\ pc = "pacing"
    /\ queue # <<>>
    /\ notif.at_id \in LedgerIds(processed_ids)

\* C11 (as stated): once stop() has been called during a batch, no further
\* event of that batch is handed to process.
C11_StopObservedBetweenEvents ==
    [][ (Stopped /\ pc = "pacing") => pc' # "processing" ]_vars

\* C11 (amended): stop() is observed only between polling cycles. After a
\* stop() during a batch the pacing delay is followed by the next event of
\* the batch, in the batch's order, until the batch is exhausted; only then
\* the batch ends, and no further poll is started.
C11_StopObservedBetweenPolls ==
    [][ /\ (Stopped /\ pc = "pacing" /\ queue # <<>> /\ pc' # pc)
              => /\ pc' = "processing"
                 /\ notif' = Head(queue)
                 /\ queue' = Tail(queue)
        /\ (Stopped /\ pc = "pacing" /\ pc' = "sleep") => queue = <<>>
        /\ (Stopped /\ pc = "sleep" /\ pc' # pc) => pc' = "done"
      ]_vars

\* stop() came while the first event of a batch was in process(); the
\* second event of the batch is in process() now
C11_Witness ==
    /\ Stopped
    /\ pc = "processing"
    /\ Len(handed) = 2
    /\ handed[1].at_id \in LedgerIds(processed_ids)

\* C12: a SummaryCache with max_size >= 1 never stores more than max_size
\* entries (and no key twice), whatever sequence of put and get is made.
C12_SizeWithinMaxSize ==
    /\ Len(cache.entries) <= max_size
    /\ Cardinality(CacheKeys(cache.entries)) = Len(cache.entries)

\* a put has just filled the cache again after an eviction: a key that was
\* put is gone although no get (which could have expired it) was made
C12_Witness ==
    /\ lastOp.op = "put"
    /\ Len(cache.entries) = max_size
    /\ cache.hits + cache.misses = 0
    /\ \E k \in Bvids : lastUsed[k] > 0 /\ k \notin CacheKeys(cache.entries)

\* a step that is a call of get
IsGetStep == opCount' = opCount + 1 /\ lastOp'.op = "get"

\* a step that is a call of put
IsPutStep == opCount' = opCount + 1 /\ lastOp'.op = "put"

\* C13: get(key) never returns a text whose expiry instant (the clock of
\* its put plus ttl) is earlier than the current clock; a get that finds
\* such an entry removes it, touches no other entry, and reports a miss.
C13_GetNeverReturnsExpired ==
    [][ IsGetStep =>
          LET key == lastOp'.key
              expired == lastPutAt[key] + ttl < clock
          IN  /\ lastOp'.ret # None
                   => /\ key \in CacheKeys(cache.entries)
                      /\ ~expired
                      /\ lastOp'.ret = Some(EntryOf(cache.entries, key).content)
              /\ (key \in CacheKeys(cache.entries) /\ expired)
                   => /\ lastOp'.ret = None
                      /\ cache'.entries = Delete(cache.entries, key)
                      /\ cache'.misses = cache.misses + 1
      ]_vars

\* put(key) at clock 0 and then get(key) one tick after the expiry instant:
\* the get reported a miss and the entry is gone
C13_Witness ==
    /\ opCount = 2
    /\ lastOp.op = "get"
    /\ lastOp.ret = None
    /\ lastPutAt[lastOp.key] = 0
    /\ clock = ttl + 1
    /\ cache.entries = <<>>
    /\ cache.misses = 1

\* the stored keys are listed from least to most recently used
InRecencyOrder(entries) ==
    \A i, j \in DOMAIN entries :
        i < j => lastUsed[entries[i].key] < lastUsed[entries[j].key]

\* C14: a put of a new key into a full cache removes exactly the least
\* recently used entry, where an entry's recency is refreshed by a put of
\* its key and by a get that hits it.
C14_EvictsLeastRecentlyUsed ==
    [][ /\ InRecencyOrder(cache.entries)
        /\ (/\ IsPutStep
            /\ lastOp'.key \notin CacheKeys(cache.entries)
            /\ Len(cache.entries) = max_size)
             => LET keys == CacheKeys(cache.entries)
                    lru == CHOOSE k \in keys :
                             \A j \in keys : lastUsed[k] <= lastUsed[j]
                IN  CacheKeys(cache'.entries)
                      = (keys \ {lru}) \cup {lastOp'.key}
      ]_vars

\* put(A), put(B), get(A), put(C) on a cache of two: A (put first, then hit
\* by the get) and C are stored, B is gone
C14_Witness ==
    \E A, B, C \in Bvids :
        /\ max_size = 2
        /\ opCount = 4
        /\ lastOp.op = "put" /\ lastOp.key = C
        /\ cache.hits = 1 /\ cache.misses = 0
        /\ lastPutAt[A] < lastPutAt[B]
        /\ lastUsed[B] = 2 /\ lastUsed[A] = 3 /\ lastUsed[C] = 4
        /\ Len(cache.entries) = 2
        /\ cache.entries[1].key = A
        /\ cache.entries[2].key = C

\* C15: the hit and miss counters never decrease; a get adds one to exactly
\* one of them: to hits when it returned a text, to misses when it returned
\* None; nothing else (a put, a clock tick) changes either.
C15_CountersCountGets ==
    [][ /\ cache'.hits >= cache.hits
        /\ cache'.misses >= cache.misses
        /\ IF IsGetStep
           THEN IF lastOp'.ret # None
                THEN /\ cache'.hits = cache.hits + 1
                     /\ cache'.misses = cache.misses
                ELSE /\ cache'.hits = cache.hits
                     /\ cache'.misses = cache.misses + 1
           ELSE /\ cache'.hits = cache.hits
                /\ cache'.misses = cache.misses
      ]_vars

\* a get that hit and a get that missed have been counted, and the put
\* that came last left both counters as they were
C15_Witness ==
    /\ lastOp.op = "put"
    /\ cache.hits = 1
    /\ cache.misses = 1
    /\ opCount = 4

\* an invocation of process() has ended
Returned == ppc = "idle" /\ events > 0

\* the messages of the send_reply calls of the invocation
PostedMessages == [i \in DOMAIN posted |-> posted[i].message]

\* C16: process() never lets an exception out: every invocation ends in
\* true or false, and one in which a collaborator call (metadata fetch,
\* subtitle fetch, generator, reply post) raised ends in false.
C16_NeverPropagates ==
    /\ Returned => result \in {"true", "false"}
    /\ (Returned /\ raised # "none") => result = "false"

\* the reply post raised after the generator had returned a summary
C16_Witness ==
    /\ Returned
    /\ raised = "reply"
    /\ calls.summarize = 1
    /\ Len(posted) = 1
    /\ result = "false"

\* C17: the relation check is fail-open: when it ends in an exception or
\* in a response with a non-zero code, the sender is treated as following
\* and process() goes on to the metadata fetch, not to the onboarding reply.
C17_RelationCheckFailOpen ==
    relationKind \in {"exception", "nonzero_code"}
        => /\ is_following
           /\ calls.video_info = 1 \/ ppc = "video_info"
           /\ \A i \in DOMAIN posted : posted[i].message # NOT_FOLLOWING_MSG

\* C18: when the relation check reports that the sender does not follow,
\* process() makes no metadata fetch, no subtitle fetch, no cache access and
\* no generator call, and posts exactly one reply, the fixed onboarding
\* message.
C18_NotFollowingOnlyOnboarding ==
    (relationKind # "pending" /\ ~is_following)
        => /\ calls = [NoCalls EXCEPT !.relation = 1]
           /\ ppc \in {"reply", "idle"}
           /\ ppc = "reply" => posted = <<>>
           /\ ppc = "idle" => PostedMessages = <<NOT_FOLLOWING_MSG>>

\* the platform answered that the sender does not follow (attribute 0) and
\* the onboarding reply has been posted
C18_Witness ==
    /\ Returned
    /\ relationKind = "answered"
    /\ ~is_following
    /\ PostedMessages = <<NOT_FOLLOWING_MSG>>
    /\ result = "true"
    /\ cache.entries # <<>>

\* C19: at most one generator computation per cached key: a summary-intent
\* event for a video that an earlier event had summarized, looked up while
\* the video's cache entry is neither expired nor evicted, makes no summarize
\* call and exactly one reply post, whatever text (the empty one included)
\* the generator had returned.
C19_OneSummarizePerCachedKey ==
    liveAtLookup
        => /\ calls.summarize = 0
           /\ calls.cache_put = 0
           /\ Returned => Len(posted) = 1

\* C20: processing a question-intent event leaves the cache unread and
\* unchanged: no get and no put is made, and entries, recency order and
\* counters stay as they are at every step of the invocation, whatever the
\* generator and the reply post end in.
C20_QuestionLeavesCacheAlone ==
    /\ []((events > 0 /\ ~SummaryIntent(notification))
            => calls.cache_get = 0 /\ calls.cache_put = 0)
    /\ [][ (ppc # "idle" /\ ~SummaryIntent(notification))
             => cache' = cache ]_vars

\* a question about a video whose summary is cached has been answered and
\* replied to
C20_Witness ==
    /\ Returned
    /\ ~SummaryIntent(notification)
    /\ notification.bvid \in CacheKeys(cache.entries)
    /\ calls.answer = 1
    /\ Len(posted) = 1
    /\ result = "true"

\* the three-character ellipsis marker ends the text
EndsWithEllipsis(text) ==
    /\ Len(text) >= 3
    /\ SubSeq(text, Len(text) - 2, Len(text)) = <<".", ".", ".">>

\* C21: for every cap and every generated text, the text _format_reply
\* returns is at most cap characters long; when prefix, newline and text
\* together are longer than the cap it is exactly cap characters long and
\* ends with "..."; otherwise it is prefix, newline and text unchanged.
C21_ReplyWithinCap ==
    fmt_reply # None
        => LET reply == fmt_reply[1]
               whole == reply_prefix \o <<"\n">> \o fmt_text
           IN  /\ Len(reply) <= fmt_cap
               /\ IF Len(whole) > fmt_cap
                  THEN Len(reply) = fmt_cap /\ EndsWithEllipsis(reply)
                  ELSE reply = whole

\* C22: every reply post of an event is made in the event's comment area
\* (oid) and threaded by the rule: root_id 0 gives root = parent = source_id,
\* any other root_id gives root = root_id and parent = source_id; on every
\* reply path.
C22_ThreadingRule ==
    \A i \in DOMAIN posted :
        /\ posted[i].oid = notification.oid
        /\ posted[i].parent = notification.source_id
        /\ notification.root_id = 0
             => posted[i].root = notification.source_id
        /\ notification.root_id # 0
             => posted[i].root = notification.root_id

\* a cached summary has been posted under the root comment 111 as a reply
\* to comment 555
C22_Witness ==
    /\ Returned
    /\ calls.cache_get = 1
    /\ calls.summarize = 0
    /\ Len(posted) = 1
    /\ posted[1].root = 111
    /\ posted[1].parent = 555
    /\ posted[1].message # NOT_FOLLOWING_MSG

\* C23: after every event handed to process(), whatever it ended in, the
\* monitor's next step is the pacing delay; process() is entered only when
\* a fetch has just returned or a pacing delay has just elapsed, so a pacing
\* delay lies between any two consecutive invocations.
C23_PacingAfterEveryEvent ==
    [][ /\ (pc = "processing" /\ pc' # pc) => pc' = "pacing"
        /\ (pc' = "processing" /\ pc' # pc)
             => \/ pc = "pacing"
                \/ pc = "poll_fetch" /\ handed = <<>>
        /\ (pc = "pacing" /\ pc' # pc) => pc' \in {"processing", "sleep"}
      ]_vars

\* the pacing delay runs after an event whose process() failed or raised,
\* with another event of the batch still to come
C23_Witness ==
    /\ pc = "pacing"
    /\ notif.at_id \in failedIds
    /\ queue # <<>>

\* C24: events are processed strictly one after the other: while process()
\* runs for an event, every event handed to it earlier in the poll has
\* ended and is in the ledger; an event is handed over only when the one
\* before it has ended and been inserted; and a fetch is in flight only
\* when no batch is being worked on.
C24_StrictlySequential ==
    /\ [](pc = "processing"
            => /\ notif = handed[Len(handed)]
               /\ \A i \in 1..(Len(handed) - 1) :
                    handed[i].at_id \in LedgerIds(processed_ids))
    /\ [](pc \in {"init_fetch", "poll_fetch"} => queue = <<>> /\ handed = <<>>)
    /\ [][ /\ (pc' = "processing" /\ pc = "pacing")
                => notif.at_id \in LedgerIds(processed_ids)
           /\ (pc' = "poll_fetch" /\ pc' # pc)
                => pc \in {"init_fetch", "sleep"}
         ]_vars

\* the second event of a batch is in process() while the first has ended
\* and is in the ledger
C24_Witness ==
    /\ pc = "processing"
    /\ Len(handed) = 2
    /\ handed[1].at_id # handed[2].at_id
    /\ handed[1].at_id \in LedgerIds(processed_ids)
    /\ handed[2].at_id \notin LedgerIds(processed_ids)

\* the events of a list, as a set
EventsOf(ns) == {ns[i] : i \in DOMAIN ns}

\* C25: in each poll the events handed to process() are exactly those of
\* the fetched batch with timestamp >= watermark and id not in the ledger,
\* watermark and ledger taken as they are when the batch is fetched: an
\* unseen event at the watermark is processed, one below it never.
C25_HandedIsNewEventSubset ==
    /\ [][ (pc = "poll_fetch" /\ pc' \notin {"poll_fetch", "done"}
            /\ failStreak' = 0)
             => EventsOf(new_notifications')
                  = {e \in EventsOf(notifications') :
                        /\ e.timestamp >= last_at_time
                        /\ e.at_id \notin LedgerIds(processed_ids)}
         ]_vars
    /\ [](pc \in {"processing", "pacing"}
            => /\ EventsOf(handed) \cup EventsOf(queue)
                    = EventsOf(new_notifications)
               /\ \A e \in EventsOf(handed) :
                    /\ e \in EventsOf(notifications)
                    /\ e.timestamp >= last_at_time)
    /\ []((pc = "pacing" /\ queue = <<>>)
            => EventsOf(handed) = EventsOf(new_notifications))

\* a batch held one unseen event at the watermark and one unseen event
\* below it; the first has been processed, the second was left out
C25_Witness ==
    /\ pc = "pacing"
    /\ queue = <<>>
    /\ Len(handed) = 1
    /\ handed[1].timestamp = last_at_time
    /\ \E e \in EventsOf(notifications) :
         /\ e.timestamp < last_at_time
         /\ e.at_id \notin LedgerIds(processed_ids)

\* process() has classified the event: the metadata fetch returned
IntentKnown == calls.video_info = 1 /\ raised # "video_info"

\* a text without the blanks at its two ends
Trimmed(text) ==
    LET inked == {i \in DOMAIN text : text[i] # " "}
    IN  IF inked = {} THEN <<>>
        ELSE SubSeq(text,
                    CHOOSE a \in inked : \A i \in inked : a <= i,
                    CHOOSE b \in inked : \A i \in inked : b >= i)

\* the routing of an event whose user text is text: the summary path is the
\* one with a cache lookup and no answer call, the question path the one
\* with neither cache call nor summarize call and with text as the question
RoutedBy(text) ==
    IF text = <<>> \/ \E i \in DOMAIN text : text[i] \in SUMMARY_KEYWORDS
    THEN /\ calls.cache_get = 1
         /\ calls.answer = 0
         /\ (ppc = "reply" /\ posted = <<>>)
              => calls.summarize = 1 \/ liveAtLookup
    ELSE /\ calls.cache_get = 0
         /\ calls.cache_put = 0
         /\ calls.summarize = 0
         /\ (ppc = "reply" /\ posted = <<>>) => calls.answer = 1
         /\ calls.answer = 1 => calls.question = text

\* the text with its leading "@name" token stripped, then trimmed
LeadingNameStripped(content) ==
    Trimmed(IF Len(content) >= 2 /\ content[1] = "@" /\ IsWord(content[2])
            THEN DropWords(Tail(content))
            ELSE content)

\* C26 (as stated): userText is the event text with the leading "@name"
\* token stripped and then trimmed; the event takes the summary path when
\* userText is empty or has a summary keyword, else the question path with
\* userText as the question.
C26_IntentByLeadingNameStripped ==
    IntentKnown => RoutedBy(LeadingNameStripped(notification.content))

\* token i of the text belongs to an "@name" token or to the blanks that
\* follow one
InAtName(text, i) ==
    \E j \in 1..i :
        /\ text[j] = "@"
        /\ j < Len(text)
        /\ IsWord(text[j + 1])
        /\ LET last == CHOOSE k \in (j + 1)..Len(text) :
                          /\ \A m \in (j + 1)..k : IsWord(text[m])
                          /\ k = Len(text) \/ ~IsWord(text[k + 1])
           IN  \/ i <= last
               \/ \A m \in (last + 1)..i : text[m] = " "

\* the text with every "@name" token and the blanks after it removed, then
\* trimmed
EveryNameStripped(content) ==
    LET kept == SelectSeq([i \in DOMAIN content |-> i],
                          LAMBDA i : ~InAtName(content, i))
    IN  Trimmed([k \in DOMAIN kept |-> content[kept[k]]])

\* C26 (amended): userText is the event text with every "@name" token,
\* wherever it stands, removed together with the blanks after it, and then
\* trimmed; the routing by userText is as stated.
C26_IntentByEveryNameStripped ==
    IntentKnown => RoutedBy(EveryNameStripped(notification.content))

\* "@bot why @summary" has been answered as the question "why"
C26_Witness ==
    /\ Returned
    /\ Len(notification.content) > 4
    /\ calls.answer = 1
    /\ calls.question = <<"why">>
    /\ calls.cache_get = 0
    /\ Len(posted) = 1

\* what pruning does to the ledger in a step: over the cap, exactly the
\* floor(max_processed_ids / 2) most recently inserted entries remain;
\* otherwise nothing is removed
PrunedToNewestHalf ==
    LET n == Len(processed_ids)
        half == max_processed_ids \div 2
    IN  IF n > max_processed_ids
        THEN /\ Len(processed_ids') = half
             /\ \A i \in 1..half :
                  processed_ids'[i] = processed_ids[n - half + i]
        ELSE processed_ids' = processed_ids

C29_AtMostOneReplyPost ==
    /\ Len(posted) <= 1
    /\ (Returned /\ result = "true")
         => /\ Len(posted) = 1
            /\ posted[1].outcome = "success"
    /\ (Returned /\ posted # <<>> /\ posted[1].outcome # "success")
         => result = "false"

\* a process() that generated a summary, posted it once, was told the post
\* failed, and returned false
C29_Witness ==
    /\ Returned
    /\ calls.summarize = 1
    /\ Len(posted) = 1
    /\ posted[1].outcome = "failure"
    /\ result = "false"
\* process() has a summary request whose summarize_video call returned
SummarizeReturned ==
    /\ ppc \in {"reply", "idle"}
    /\ is_summary
    /\ calls.summarize = 1
    /\ raised # "ai"

\* C30: when summarize_video raises, the cache is left as it was (no put),
\* no reply is posted and process() returns false; when it returns, its
\* text is put into the cache before the reply is attempted and is still
\* cached when the reply fails or raises.
C30_SummaryCachedBeforeReply ==
    /\ [][ (ppc = "ai" /\ ppc' = "idle" /\ is_summary)
             => /\ calls'.summarize = calls.summarize + 1
                /\ calls'.cache_put = calls.cache_put
                /\ cache' = cache
                /\ posted' = <<>>
                /\ result' = "false"
         ]_vars
    /\ [](SummarizeReturned
            => /\ calls.cache_put = 1
               /\ notification.bvid \in CacheKeys(cache.entries)
               /\ reply_text
                    = format_reply(EntryOf(cache.entries,
                                           notification.bvid).content))
    /\ [][ (SummarizeReturned /\ ppc = "reply")
             => /\ posted = <<>>
                /\ cache' = cache
         ]_vars

\* a generated summary whose reply raised: process() returned false and the
\* summary is in the cache
C30_Witness ==
    /\ Returned
    /\ SummarizeReturned
    /\ raised = "reply"
    /\ posted # <<>> /\ posted[1].outcome = "raised"
    /\ result = "false"
    /\ notification.bvid \in CacheKeys(cache.entries)
    /\ EntryOf(cache.entries, notification.bvid).content # <<>>
\* the entry a put step stores
PutEntry ==
    [key |-> lastOp'.key,
     content |-> lastPutContent'[lastOp'.key],
     expire_at |-> clock + ttl]

\* C31: put chooses its victim by recency alone and ignores expiry: a put
\* of a new key into a cache holding max_size entries removes the least
\* recently used entry (the first one), expired or not, and keeps every
\* other entry, expired or not; below max_size entries, expired ones
\* included, it removes nothing.
C31_EvictionIgnoresExpiry ==
    [][ (IsPutStep /\ lastOp'.key \notin CacheKeys(cache.entries))
          => cache'.entries
               = Append(IF Len(cache.entries) >= max_size
                        THEN Tail(cache.entries)
                        ELSE cache.entries,
                        PutEntry)
      ]_vars

\* put(A), put(B), get(A) hits, A expires, put(C) while B has not expired:
\* B is gone, the expired A is still stored next to C
C31_Witness ==
    \E A, B \in Bvids :
        /\ lastOp.op = "put"
        /\ lastOp.key \notin {A, B}
        /\ lastPutAt[lastOp.key] = clock
        /\ Len(cache.entries) = max_size
        /\ cache.entries[1].key = A
        /\ cache.entries[1].expire_at < clock
        /\ lastPutAt[B] >= 0
        /\ clock <= lastPutAt[B] + ttl
        /\ lastUsed[B] < lastUsed[A]
        /\ B \notin CacheKeys(cache.entries)

\* C32: a put for a key that is already stored in a cache holding max_size
\* entries still evicts the least recently used entry before overwriting:
\* when that entry belongs to another key it is removed and the cache then
\* holds max_size - 1 entries, the key's new entry last.
C32_PutOnPresentKeyEvicts ==
    [][ (/\ IsPutStep
         /\ lastOp'.key \in CacheKeys(cache.entries)
         /\ Len(cache.entries) = max_size
         /\ cache.entries[1].key # lastOp'.key)
          => /\ cache.entries[1].key \notin CacheKeys(cache'.entries)
             /\ Len(cache'.entries) = max_size - 1
             /\ cache'.entries
                  = Append(Delete(Tail(cache.entries), lastOp'.key),
                           PutEntry)
      ]_vars

\* put(A), put(B), put(B) on a cache of max_size entries with no get made:
\* A is gone and the cache holds max_size - 1 entries
C32_Witness ==
    \E A \in Bvids :
        /\ opCount = max_size + 1
        /\ lastOp.op = "put"
        /\ cache.hits + cache.misses = 0
        /\ A # lastOp.key
        /\ lastUsed[A] > 0
        /\ A \notin CacheKeys(cache.entries)
        /\ lastUsed[lastOp.key] = opCount
        /\ Len(cache.entries) = max_size - 1
====
